---- MODULE Spec2Model ----
(***************************************************************************)
(* Protocol insolvency query (src/protocol_insolvency_query.py).           *)
(*                                                                         *)
(* query() is a four stage filter over a program representation supplied   *)
(* by the host platform.  The representation is immutable: it is chosen in *)
(* the initial state and never changes.  Every access the code makes to it *)
(* (get_args, callee_names, source_code, backward_df, has_global_df,       *)
(* get_parent, next_instructions) is an answer stored in the               *)
(* representation, which is either a value or an exception.                *)
(*                                                                         *)
(* Source texts are TLA+ strings; the substring tests, lower() and strip() *)
(* of the code are computed character by character.                        *)
(***************************************************************************)
EXTENDS Integers, Sequences, FiniteSets, TLC

VARIABLES
    functions,                       \* the host's Functions(), in host order
    caps,                            \* the two exec() limits of query()
    pc,                              \* position of query()
    candidate_functions,             \* indices into functions
    transfer_and_burn_instructions,  \* <<function index, instruction index>>
    vulnerable_instructions,
    results

vars == <<functions, caps, pc, candidate_functions,
          transfer_and_burn_instructions, vulnerable_instructions, results>>

-----------------------------------------------------------------------------
(* Bounds of the model.                                                    *)

MaxTrace == 2      \* longest backward dataflow trace
MaxNext == 2       \* most successor instructions of an outflow call
MaxFuncs == 2      \* most functions of a representation
MaxInstr == 2      \* most instructions of one function
MaxCap == 2        \* largest scaled-down exec() limit

-----------------------------------------------------------------------------
(* Answers of the host: a value, or an exception raised by the access.     *)

Ok(v) == [ok |-> TRUE, val |-> v]
RaiseText == [ok |-> FALSE, val |-> ""]
RaiseSeq == [ok |-> FALSE, val |-> <<>>]
RaiseSet == [ok |-> FALSE, val |-> {}]

-----------------------------------------------------------------------------
(* Python string operations.                                               *)

UpperLetters == "ABCDEFGHIJKLMNOPQRSTUVWXYZ"
LowerLetters == "abcdefghijklmnopqrstuvwxyz"
Whitespace == {" ", "\t", "\n", "\r"}

CharAt(s, i) == SubSeq(s, i, i)

\* one character of str.lower()
LowerChar(c) ==
    IF \E i \in 1..Len(UpperLetters) : CharAt(UpperLetters, i) = c
    THEN LET i == CHOOSE j \in 1..Len(UpperLetters) : CharAt(UpperLetters, j) = c
         IN  CharAt(LowerLetters, i)
    ELSE c

RECURSIVE LowerFrom(_, _)
LowerFrom(s, i) ==
    IF i > Len(s) THEN "" ELSE LowerChar(CharAt(s, i)) \o LowerFrom(s, i + 1)

\* str.lower()
Lower(s) == LowerFrom(s, 1)

\* "pat in s"
Contains(pat, s) ==
    \E i \in 0..(Len(s) - Len(pat)) : SubSeq(s, i + 1, i + Len(pat)) = pat

\* str.strip()
Strip(s) ==
    LET keep == {i \in 1..Len(s) : CharAt(s, i) \notin Whitespace}
        Min(S) == CHOOSE x \in S : \A y \in S : x <= y
        Max(S) == CHOOSE x \in S : \A y \in S : x >= y
    IN  IF keep = {} THEN "" ELSE SubSeq(s, Min(keep), Max(keep))

\* args[-1]
Last(s) == s[Len(s)]

\* the elements of a list
Range(s) == {s[i] : i \in 1..Len(s)}

\* exec(limit): at most limit elements, the first ones
Exec(s, limit) == SubSeq(s, 1, IF Len(s) < limit THEN Len(s) ELSE limit)

-----------------------------------------------------------------------------
(* The program representation.                                             *)
(*   function:    [name, properties, modifiers, arg_types, instructions]   *)
(*   instruction: [callee_names, args, parent, next]                       *)
(*     callee_names : answer, a set of names                               *)
(*     args         : answer, a list of argument expressions               *)
(*     parent       : answer of get_parent(): the index of the owning      *)
(*                    function, or 0 for None                              *)
(*     next         : answer, a list of successors [callee_names, source]  *)
(*   argument:    [source, backward_df, global_df]                         *)
(*     source       : answer, the literal text                             *)
(*     backward_df  : answer, a list of points; a point is the answer of   *)
(*                    its source_code()                                    *)
(*     global_df    : "true" / "false" (has_global_df() returns it),       *)
(*                    "absent" (no such attribute) or "raise"              *)

Instr(id) == functions[id[1]].instructions[id[2]]

RaiseParent == [ok |-> FALSE, val |-> 0]
None == 0

-----------------------------------------------------------------------------
(* Step 3: lacks_reserve_check                                             *)

reserve_check_patterns ==
    {"balanceOf", "getBalance", "available", "liquidity", "reserves",
     "totalAssets", "getReserves"}

\* PointIsReserveCheck testing the pattern as written, not pattern.lower()
PointIsReserveCheck_PatternAsWritten(df_point) ==
    /\ df_point.ok
    /\ \E pattern \in reserve_check_patterns :
          Contains(pattern, Lower(df_point.val))
    /\ \/ Contains("address(this)", df_point.val)
       \/ Contains("this", df_point.val)

\* the body of "for df_point in backward_flow", one point
PointIsReserveCheck(df_point) ==
    /\ df_point.ok
    /\ \E pattern \in reserve_check_patterns :
          Contains(Lower(pattern), Lower(df_point.val))
    /\ \/ Contains("address(this)", df_point.val)
       \/ Contains("this", df_point.val)

\* the loop over the trace: False at the first reserve check, else True
RECURSIVE ScanBackwardFlow(_, _)
ScanBackwardFlow(backward_flow, i) ==
    IF i > Len(backward_flow) THEN TRUE
    ELSE IF PointIsReserveCheck(backward_flow[i]) THEN FALSE
    ELSE ScanBackwardFlow(backward_flow, i + 1)

\* lacks_reserve_check without the len() test: args[-1] of an empty list
\* raises, and the outer except answers True
lacks_reserve_check_NoEmptyTest(instruction) ==
    IF ~instruction.args.ok THEN TRUE
    ELSE IF Len(instruction.args.val) = 0 THEN TRUE
    ELSE LET amount_arg == Last(instruction.args.val)
         IN  IF ~amount_arg.backward_df.ok THEN TRUE
             ELSE ScanBackwardFlow(amount_arg.backward_df.val, 1)

lacks_reserve_check(instruction) ==
    IF ~instruction.args.ok THEN TRUE
    ELSE IF Len(instruction.args.val) = 0 THEN FALSE
    ELSE LET amount_arg == Last(instruction.args.val)
         IN  IF ~amount_arg.backward_df.ok THEN TRUE
             ELSE ScanBackwardFlow(amount_arg.backward_df.val, 1)

-----------------------------------------------------------------------------
(* Step 3: has_global_df_in_amount                                         *)

\* has_global_df_in_amount answering False when has_global_df() raises
has_global_df_in_amount_RaiseIsFalse(instruction) ==
    IF ~instruction.args.ok THEN TRUE
    ELSE IF Len(instruction.args.val) = 0 THEN FALSE
    ELSE LET amount_arg == Last(instruction.args.val)
         IN  CASE amount_arg.global_df = "absent" -> TRUE
               [] amount_arg.global_df = "raise" -> FALSE
               [] amount_arg.global_df = "true" -> TRUE
               [] amount_arg.global_df = "false" -> FALSE

has_global_df_in_amount(instruction) ==
    IF ~instruction.args.ok THEN TRUE
    ELSE IF Len(instruction.args.val) = 0 THEN FALSE
    ELSE LET amount_arg == Last(instruction.args.val)
         IN  CASE amount_arg.global_df = "absent" -> TRUE
               [] amount_arg.global_df = "raise" -> TRUE
               [] amount_arg.global_df = "true" -> TRUE
               [] amount_arg.global_df = "false" -> FALSE

-----------------------------------------------------------------------------
(* Step 4: the false positive filters                                      *)

safe_patterns == {"safetransfer", "safewithdraw", "safemint", "safeburn"}

\* is_protected_by_safe_wrapper matching the name as written, not name.lower()
is_protected_by_safe_wrapper_NameAsWritten(instruction) ==
    IF ~instruction.parent.ok THEN FALSE
    ELSE IF instruction.parent.val = None THEN FALSE
    ELSE LET parent_function == functions[instruction.parent.val]
             func_name == parent_function.name
         IN  \E pattern \in safe_patterns : Contains(pattern, func_name)

is_protected_by_safe_wrapper(instruction) ==
    IF ~instruction.parent.ok THEN FALSE
    ELSE IF instruction.parent.val = None THEN FALSE
    ELSE LET parent_function == functions[instruction.parent.val]
             func_name == Lower(parent_function.name)
         IN  \E pattern \in safe_patterns : Contains(pattern, func_name)

\* one successor is a require/assert whose text mentions success or ok
SuccessorIsGuard(next_instr) ==
    /\ \/ "require" \in next_instr.callee_names.val
       \/ "assert" \in next_instr.callee_names.val
    /\ next_instr.source.ok
    /\ \/ Contains("success", Lower(next_instr.source.val))
       \/ Contains("ok", Lower(next_instr.source.val))

\* the loop over the successors; callee_names() is read outside the inner
\* try, so its exception leaves the loop through the outer except
RECURSIVE ScanNextInstructions(_, _)
ScanNextInstructions(next_instructions, i) ==
    IF i > Len(next_instructions) THEN FALSE
    ELSE IF ~next_instructions[i].callee_names.ok THEN FALSE
    ELSE IF SuccessorIsGuard(next_instructions[i]) THEN TRUE
    ELSE ScanNextInstructions(next_instructions, i + 1)

has_post_transfer_revert_guard(instruction) ==
    IF ~instruction.next.ok THEN FALSE
    ELSE ScanNextInstructions(instruction.next.val, 1)

\* is_amount_constant_zero comparing the stripped text to "0x0", not "0"
is_amount_constant_zero_WrongLiteral(instruction) ==
    IF ~instruction.args.ok THEN FALSE
    ELSE IF Len(instruction.args.val) = 0 THEN FALSE
    ELSE LET amount_arg == Last(instruction.args.val)
         IN  IF ~amount_arg.source.ok THEN FALSE
             ELSE \/ Strip(amount_arg.source.val) = "0x0"
                  \/ Contains("uint256).max", amount_arg.source.val)

is_amount_constant_zero(instruction) ==
    IF ~instruction.args.ok THEN FALSE
    ELSE IF Len(instruction.args.val) = 0 THEN FALSE
    ELSE LET amount_arg == Last(instruction.args.val)
         IN  IF ~amount_arg.source.ok THEN FALSE
             ELSE \/ Strip(amount_arg.source.val) = "0"
                  \/ Contains("uint256).max", amount_arg.source.val)

-----------------------------------------------------------------------------
(* query()                                                                 *)

CandidateLimit == 500
InstructionLimit == 1000

guarded_modifier_names == {"onlyOwner", "nonReentrant", "whenNotPaused", "lock"}

candidate_names ==
    {"withdraw", "redeem", "burn", "transferFrom", "safeWithdraw",
     "exitMarket", "borrow", "redeemShares", "unstake", "claim",
     "liquidate", "seize", "exit", "removeLiquidity"}

outflow_callees == {"transfer", "burn", "transferFrom", "safeTransferFrom", "_burn"}

\* the Functions() selector of step 1
IsCandidate(f) ==
    /\ f.properties \cap {"public", "external"} # {}
    /\ f.properties \cap {"pure", "view"} = {}
    /\ f.modifiers \cap guarded_modifier_names = {}
    /\ f.name \in candidate_names
    /\ "uint256" \in f.arg_types

\* step 1: the candidates, at most limit of them
SelectCandidates(limit) ==
    LET all == [k \in 1..Len(functions) |-> k]
        Test(k) == IsCandidate(functions[k])
    IN  Exec(SelectSeq(all, Test), limit)

\* .instructions(): the instructions of the candidates, function by function
RECURSIVE InstructionsOf(_)
InstructionsOf(cands) ==
    IF cands = <<>> THEN <<>>
    ELSE LET k == Head(cands)
         IN  [i \in 1..Len(functions[k].instructions) |-> <<k, i>>]
                 \o InstructionsOf(Tail(cands))

\* the lambda of step 2; it has no try, so callee_names() raising ends query()
IsOutflow(id) == Instr(id).callee_names.val \cap outflow_callees # {}

CalleeNamesRaises(ids) == \E id \in Range(ids) : ~Instr(id).callee_names.ok

\* the lambda of step 3
IsVulnerable(id) ==
    lacks_reserve_check(Instr(id)) /\ has_global_df_in_amount(Instr(id))

\* the lambda of step 4
IsNotFalsePositive(id) ==
    /\ ~is_protected_by_safe_wrapper(Instr(id))
    /\ ~has_post_transfer_revert_guard(Instr(id))
    /\ ~is_amount_constant_zero(Instr(id))

\* query() under the limits (c, i): whether it returns, and what
QueryRun(c, i) ==
    LET lowered == Exec(InstructionsOf(SelectCandidates(c)), i)
        outflows == SelectSeq(lowered, IsOutflow)
        vulnerable == SelectSeq(outflows, IsVulnerable)
    IN  [returns |-> ~CalleeNamesRaises(lowered),
         findings |-> Range(SelectSeq(vulnerable, IsNotFalsePositive))]

Step1 ==
    /\ pc = "step1"
    /\ candidate_functions' = SelectCandidates(caps.candidates)
    /\ pc' = "step2"
    /\ UNCHANGED <<functions, caps, transfer_and_burn_instructions,
                   vulnerable_instructions, results>>

Step2 ==
    /\ pc = "step2"
    /\ LET lowered == Exec(InstructionsOf(candidate_functions), caps.instructions)
       IN  IF CalleeNamesRaises(lowered)
           THEN /\ pc' = "raised"
                /\ UNCHANGED transfer_and_burn_instructions
           ELSE /\ pc' = "step3"
                /\ transfer_and_burn_instructions' = SelectSeq(lowered, IsOutflow)
    /\ UNCHANGED <<functions, caps, candidate_functions,
                   vulnerable_instructions, results>>

Step3 ==
    /\ pc = "step3"
    /\ vulnerable_instructions' =
          SelectSeq(transfer_and_burn_instructions, IsVulnerable)
    /\ pc' = "step4"
    /\ UNCHANGED <<functions, caps, candidate_functions,
                   transfer_and_burn_instructions, results>>

Step4 ==
    /\ pc = "step4"
    /\ results' = SelectSeq(vulnerable_instructions, IsNotFalsePositive)
    /\ pc' = "done"
    /\ UNCHANGED <<functions, caps, candidate_functions,
                   transfer_and_burn_instructions, vulnerable_instructions>>

-----------------------------------------------------------------------------
(* Representations the initial states draw from.                           *)

SeqsUpTo(S, n) == UNION {[1..k -> S] : k \in 0..n}

\* function headers: two candidates of step 1 and one function for each
\* condition of the selector that fails
Header(name, properties, modifiers, arg_types) ==
    [name |-> name, properties |-> properties, modifiers |-> modifiers,
     arg_types |-> arg_types]

CandidateHeaders ==
    {Header("withdraw", {"external"}, {}, {"uint256"}),
     Header("safeWithdraw", {"public", "payable"}, {}, {"address", "uint256"})}

OtherHeaders ==
    {Header("withdraw", {"internal"}, {}, {"uint256"}),
     Header("redeem", {"public", "view"}, {}, {"uint256"}),
     Header("borrow", {"external"}, {"nonReentrant"}, {"uint256"}),
     Header("deposit", {"external"}, {}, {"uint256"}),
     Header("claim", {"public"}, {}, {"address"})}

WithInstructions(h, instructions) ==
    [name |-> h.name, properties |-> h.properties, modifiers |-> h.modifiers,
     arg_types |-> h.arg_types, instructions |-> instructions]

Argument(source, backward_df, global_df) ==
    [source |-> source, backward_df |-> backward_df, global_df |-> global_df]

Instruction(callee_names, args, parent, next) ==
    [callee_names |-> callee_names, args |-> args, parent |-> parent,
     next |-> next]

Successor(callee_names, source) ==
    [callee_names |-> callee_names, source |-> source]

GlobalDf == {"true", "false", "absent", "raise"}

\* a first argument whose own answers would settle every check the other way
Recipient ==
    Argument(Ok("0"), Ok(<<Ok("token.balanceOf(address(this))")>>), "false")

\* the argument lists around one amount expression
ArgLists(amounts) ==
    {RaiseSeq, Ok(<<>>)}
        \cup {Ok(<<a>>) : a \in amounts}
        \cup {Ok(<<Recipient, a>>) : a \in amounts}

PlainAmount == Argument(Ok("amount"), Ok(<<Ok("amount")>>), "true")

\* points of a backward trace
TracePoints ==
    {Ok("token.balanceOf(address(this))"),
     Ok("vault.totalAssets(this)"),
     Ok("token.balanceOf(msg.sender)"),
     Ok("token.balanceOf(thisUser)"),
     Ok("shares * price"),
     RaiseText}

\* successors of an outflow call
Successors ==
    {Successor(Ok({"require"}), Ok("require(success)")),
     Successor(Ok({"assert"}), Ok("assert(OK)")),
     Successor(Ok({"require"}), Ok("require(amount > 0)")),
     Successor(Ok({"emit"}), Ok("emit Success(amount)")),
     Successor(Ok({"require"}), RaiseText),
     Successor(RaiseSet, Ok("require(success)"))}

Start ==
    /\ pc = "step1"
    /\ candidate_functions = <<>>
    /\ transfer_and_burn_instructions = <<>>
    /\ vulnerable_instructions = <<>>
    /\ results = <<>>

SourceLimits == [candidates |-> CandidateLimit, instructions |-> InstructionLimit]

\* one function with one instruction: every answer of the instruction varies
Init ==
    /\ \E h \in CandidateHeaders \cup OtherHeaders :
       \E callee_names \in {RaiseSet, Ok({"transfer"}), Ok({"approve"})} :
       \E source \in {RaiseText, Ok("0"), Ok(" 0"), Ok("amount"),
                      Ok("type(uint256).max")} :
       \E backward_df \in {RaiseSeq, Ok(<<>>), Ok(<<Ok("shares * price")>>),
                           Ok(<<Ok("token.balanceOf(address(this))")>>)} :
       \E global_df \in GlobalDf :
       \E args \in ArgLists({Argument(source, backward_df, global_df)}) :
       \E parent \in {RaiseParent, Ok(None), Ok(1)} :
       \E next \in {RaiseSeq, Ok(<<>>),
                    Ok(<<Successor(Ok({"require"}), Ok("require(success)"))>>),
                    Ok(<<Successor(Ok({"require"}), Ok("require(amount > 0)"))>>)} :
          functions =
             <<WithInstructions(h, <<Instruction(callee_names, args, parent, next)>>)>>
    /\ caps = SourceLimits
    /\ Start

\* one outflow call: the backward trace of the amount varies
InitTrace ==
    /\ \E h \in CandidateHeaders :
       \E trace \in {RaiseSeq} \cup {Ok(t) : t \in SeqsUpTo(TracePoints, MaxTrace)} :
       \E global_df \in GlobalDf :
       \E args \in ArgLists({Argument(Ok("amount"), trace, global_df)}) :
          functions =
             <<WithInstructions(h,
                  <<Instruction(Ok({"transfer"}), args, Ok(1), Ok(<<>>))>>)>>
    /\ caps = SourceLimits
    /\ Start

\* one outflow call: its successors vary
InitNext ==
    /\ \E h \in CandidateHeaders :
       \E next \in {RaiseSeq} \cup {Ok(n) : n \in SeqsUpTo(Successors, MaxNext)} :
       \E args \in ArgLists({PlainAmount}) :
          functions =
             <<WithInstructions(h,
                  <<Instruction(Ok({"transfer"}), args, Ok(1), next)>>)>>
    /\ caps = SourceLimits
    /\ Start

\* several functions and instructions under small limits
CapInstructions(k) ==
    {Instruction(Ok({"transfer"}), Ok(<<PlainAmount>>), Ok(k), Ok(<<>>)),
     Instruction(Ok({"approve"}), Ok(<<PlainAmount>>), Ok(k), Ok(<<>>)),
     Instruction(RaiseSet, Ok(<<PlainAmount>>), Ok(k), Ok(<<>>))}

InitCaps ==
    /\ \E n \in 1..MaxFuncs :
       \E hs \in [1..n -> {Header("withdraw", {"external"}, {}, {"uint256"}),
                           Header("deposit", {"external"}, {}, {"uint256"})}] :
       \E is \in [1..n -> SeqsUpTo(CapInstructions(1), MaxInstr)] :
          functions =
             [k \in 1..n |->
                 WithInstructions(hs[k],
                    [i \in 1..Len(is[k]) |->
                        [is[k][i] EXCEPT !.parent = Ok(k)]])]
    /\ caps \in [candidates : 0..MaxCap, instructions : 0..MaxCap]
    /\ Start

Next == Step1 \/ Step2 \/ Step3 \/ Step4

Spec == Init /\ [][Next]_vars
SpecTrace == InitTrace /\ [][Next]_vars
SpecNext == InitNext /\ [][Next]_vars
SpecCaps == InitCaps /\ [][Next]_vars

-----------------------------------------------------------------------------
(* The claims.  The texts below are classified by what they say, not by    *)
(* the tests of the code.                                                  *)

AllIds ==
    UNION {{<<k, i>> : i \in 1..Len(functions[k].instructions)} :
              k \in 1..Len(functions)}

HasArgs(ins) == ins.args.ok /\ Len(ins.args.val) > 0
NoArgs(ins) == ins.args.ok /\ Len(ins.args.val) = 0
Amount(ins) == ins.args.val[Len(ins.args.val)]

\* a reserve pattern applied to the contract itself
SelfBalanceTexts == {"token.balanceOf(address(this))", "vault.totalAssets(this)"}

\* function names that hold a safe wrapper pattern, whatever the case
SafeWrapperNames == {"safeWithdraw"}

\* successors that call require/assert and mention success or ok
IsRevertGuard(n) ==
    /\ n.callee_names.ok
    /\ n.callee_names.val \cap {"require", "assert"} # {}
    /\ n.source.ok
    /\ n.source.val \in {"require(success)", "assert(OK)"}

\* none of the three rules of step 4 can apply to the instruction
NoExclusionApplies(ins) ==
    /\ ~ins.parent.ok
    /\ ins.next.ok /\ ins.next.val = <<>>
    /\ HasArgs(ins) => Amount(ins).source = Ok("amount")

\* C1: an instruction whose argument list is empty gets False from
\* lacks_reserve_check and from has_global_df_in_amount, and is never among
\* the vulnerable instructions or the results of query().
C1_ZeroArgsNeverFlagged ==
    \A id \in AllIds :
        NoArgs(Instr(id)) =>
            /\ ~lacks_reserve_check(Instr(id))
            /\ ~has_global_df_in_amount(Instr(id))
            /\ id \notin Range(vulnerable_instructions)
            /\ id \notin Range(results)

\* query() has returned, and an outflow call without arguments that no rule of
\* step 4 would exclude went through step 3 and is not in the results
C1_Witness ==
    /\ pc = "done"
    /\ \E id \in Range(transfer_and_burn_instructions) :
          /\ NoArgs(Instr(id))
          /\ NoExclusionApplies(Instr(id))
          /\ id \notin Range(results)

\* C2: when the backward trace of the last argument holds a readable point
\* that applies a reserve pattern to the contract itself, at any position and
\* among any other points, lacks_reserve_check is False and step 3 drops the
\* instruction.
C2_SelfBalancePointGuards ==
    \A id \in AllIds :
        LET ins == Instr(id) IN
        (/\ HasArgs(ins)
         /\ Amount(ins).backward_df.ok
         /\ \E point \in Range(Amount(ins).backward_df.val) :
               point.ok /\ point.val \in SelfBalanceTexts)
        => /\ ~lacks_reserve_check(ins)
           /\ id \notin Range(vulnerable_instructions)

\* the self balance point is the last of the trace, after an unreadable point,
\* the amount is externally influenced, and step 3 dropped the instruction
C2_Witness ==
    /\ pc = "done"
    /\ \E id \in Range(transfer_and_burn_instructions) :
          LET ins == Instr(id) IN
          /\ HasArgs(ins)
          /\ Amount(ins).backward_df.ok
          /\ Len(Amount(ins).backward_df.val) >= 2
          /\ ~Amount(ins).backward_df.val[1].ok
          /\ Last(Amount(ins).backward_df.val).ok
          /\ Last(Amount(ins).backward_df.val).val \in SelfBalanceTexts
          /\ Amount(ins).global_df = "true"
          /\ id \notin Range(vulnerable_instructions)

\* C3: with at least one argument, lacks_reserve_check is True when the trace
\* cannot be computed and when no readable point of the trace applies a
\* reserve pattern to the contract itself (unreadable points are skipped), so
\* step 3 keeps such an outflow whose amount is externally influenced.
C3_NoQualifyingPointIsVulnerable ==
    \A id \in AllIds :
        LET ins == Instr(id) IN
        (/\ pc \in {"step4", "done"}
         /\ id \in Range(transfer_and_burn_instructions)
         /\ HasArgs(ins)
         /\ Amount(ins).global_df = "true"
         /\ \/ ~Amount(ins).backward_df.ok
            \/ \A point \in Range(Amount(ins).backward_df.val) :
                  point.ok => point.val \notin SelfBalanceTexts)
        => /\ lacks_reserve_check(ins)
           /\ id \in Range(vulnerable_instructions)

\* C4: with at least one argument, has_global_df_in_amount is True when the
\* host reports influence, when the status is unknown (no has_global_df
\* attribute) and when the query raises; it is False only when the host
\* reports no influence.  It is True as well when get_args() raises.  Step 3
\* keeps or drops an unguarded outflow accordingly.
C4_TaintFailsClosed ==
    \A id \in AllIds :
        LET ins == Instr(id) IN
        /\ ~ins.args.ok => has_global_df_in_amount(ins)
        /\ HasArgs(ins) =>
              /\ has_global_df_in_amount(ins) <=> Amount(ins).global_df # "false"
              /\ (/\ pc \in {"step4", "done"}
                  /\ id \in Range(transfer_and_burn_instructions)
                  /\ lacks_reserve_check(ins))
                 => (id \in Range(vulnerable_instructions)
                        <=> Amount(ins).global_df \in {"true", "absent", "raise"})

\* an outflow whose taint query raised was kept by step 3 and returned
C4_Witness ==
    /\ pc = "done"
    /\ \E id \in Range(results) :
          /\ HasArgs(Instr(id))
          /\ Amount(Instr(id)).global_df = "raise"

\* C5: an outflow whose last argument reads exactly 0 is not in the results,
\* whatever the other checks answer.
C5_ConstantZeroExcluded ==
    \A id \in AllIds :
        LET ins == Instr(id) IN
        (HasArgs(ins) /\ Amount(ins).source = Ok("0"))
        => /\ is_amount_constant_zero(ins)
           /\ id \notin Range(results)

\* step 3 flagged a call with amount 0 that neither the safe wrapper rule nor
\* the revert guard rule excludes, and step 4 removed it
C5_Witness ==
    /\ pc = "done"
    /\ \E id \in Range(vulnerable_instructions) :
          LET ins == Instr(id) IN
          /\ HasArgs(ins)
          /\ Amount(ins).source = Ok("0")
          /\ ~ins.parent.ok
          /\ ins.next = Ok(<<>>)
          /\ id \notin Range(results)

\* C6: an outflow whose owning function, as get_parent() returns it, has a
\* name holding a safe wrapper pattern in any case is not in the results;
\* when get_parent() raises or returns None the safe wrapper rule excludes
\* nothing, so a flagged instruction no other rule excludes is returned.
C6_SafeWrapperExcluded ==
    \A id \in AllIds :
        LET ins == Instr(id) IN
        /\ (/\ ins.parent.ok
            /\ ins.parent.val # None
            /\ functions[ins.parent.val].name \in SafeWrapperNames)
           => /\ is_protected_by_safe_wrapper(ins)
              /\ id \notin Range(results)
        /\ (~ins.parent.ok \/ ins.parent.val = None)
           => /\ ~is_protected_by_safe_wrapper(ins)
              /\ (/\ pc = "done"
                  /\ id \in Range(vulnerable_instructions)
                  /\ ins.next = Ok(<<>>)
                  /\ HasArgs(ins)
                  /\ Amount(ins).source = Ok("amount"))
                 => id \in Range(results)

\* step 3 flagged a call inside safeWithdraw that neither the revert guard
\* rule nor the constant rule excludes, and step 4 removed it
C6_Witness ==
    /\ pc = "done"
    /\ \E id \in Range(vulnerable_instructions) :
          LET ins == Instr(id) IN
          /\ ins.parent = Ok(id[1])
          /\ functions[id[1]].name = "safeWithdraw"
          /\ ins.next = Ok(<<>>)
          /\ HasArgs(ins)
          /\ Amount(ins).source = Ok("amount")
          /\ id \notin Range(results)

\* C7: has_post_transfer_revert_guard is True, and step 4 drops the
\* instruction, when any successor calls require/assert and mentions success
\* or ok, at any position and whatever the other successors are.
C7_AnyGuardSuccessorExcludes ==
    \A id \in AllIds :
        LET ins == Instr(id) IN
        (/\ pc = "done"
         /\ id \in Range(vulnerable_instructions)
         /\ ins.next.ok
         /\ \E n \in Range(ins.next.val) : IsRevertGuard(n))
        => /\ has_post_transfer_revert_guard(ins)
           /\ id \notin Range(results)

\* C8: every finding that query() returns under limits no larger than those
\* of the run that ended is a finding of that run: raising a limit removes no
\* finding.
C8_MonotoneUnderCaps ==
    pc \in {"done", "raised"} =>
        \A c \in 0..caps.candidates : \A i \in 0..caps.instructions :
            QueryRun(c, i).returns =>
                \A id \in QueryRun(c, i).findings :
                    pc = "done" /\ id \in Range(results)

\* C9: no failing access ends query() with an exception.
C9_NeverAborts == pc # "raised"

\* C10: with at least one argument, lacks_reserve_check is False, and step 3
\* drops an outflow whose amount is externally influenced, only if a readable
\* point of the trace applies a reserve pattern to the contract itself.
C10_OnlyOwnBalanceGuards ==
    \A id \in AllIds :
        LET ins == Instr(id) IN
        (/\ pc \in {"step4", "done"}
         /\ id \in Range(transfer_and_burn_instructions)
         /\ HasArgs(ins)
         /\ Amount(ins).global_df = "true"
         /\ id \notin Range(vulnerable_instructions))
        => /\ Amount(ins).backward_df.ok
           /\ \E point \in Range(Amount(ins).backward_df.val) :
                 point.ok /\ point.val \in SelfBalanceTexts

====
